---------------------------- MODULE Spec2Model ----------------------------
(***************************************************************************)
(* Djrill: the Mandrill message classes (djrill/mail/__init__.py) and the  *)
(* Mandrill e-mail backend (djrill/mail/backends.py).                      *)
(*                                                                         *)
(* Python strings are sequences of one-character strings, so that          *)
(* startswith, len, [-1] and + are computed and not assumed.  Python       *)
(* objects and dicts are functions from attribute names (keys) to values:  *)
(* an attribute that was never set is a name outside the DOMAIN.           *)
(***************************************************************************)
EXTENDS Integers, Sequences, FiniteSets, TLC

VARIABLES
    settings,         \* django.conf.settings: the attributes that are set
    argFailSilently,  \* the fail_silently argument given to DjrillBackend(...)
    backend,          \* the DjrillBackend instance (self) once constructed
    email_messages,            \* email_messages, the argument of send_messages
    pc,               \* where the caller is
    idx,              \* position of the for loop of send_messages (1-based)
    num_sent,         \* the local num_sent of send_messages
    posts,            \* the requests.post calls issued, each with its response
    exc,              \* the exception that reached the caller
    result,           \* the value send_messages returned
    made              \* the last message constructor call: class, arguments, outcome

vars == <<settings, argFailSilently, backend, email_messages, pc, idx, num_sent,
          posts, exc, result, made>>

-----------------------------------------------------------------------------
(* Bounds of the model *)

MaxBatch == 2
MaxTags == 2

-----------------------------------------------------------------------------
(* Python values *)

\* None: a value that is no string, list or dict (its domain is {0}).
None == (0 :> 0)

\* bool(v) of None, a string or a list.
Truthy(v) == v # None /\ v # <<>>

\* s.startswith(p)
StartsWith(s, p) == Len(s) >= Len(p) /\ SubSeq(s, 1, Len(p)) = p

\* getattr(obj, name, default)
GetAttr(obj, name, default) == IF name \in DOMAIN obj THEN obj[name] ELSE default

\* dict.update / attribute assignment: e's entries over d's
Update(d, e) ==
    [k \in DOMAIN d \cup DOMAIN e |-> IF k \in DOMAIN e THEN e[k] ELSE d[k]]

EmptyDict == [k \in {} |-> None]

Rep(c, n) == [i \in 1..n |-> c]

NoExc == [type |-> "none"]
Raise(type) == [type |-> type]

-----------------------------------------------------------------------------
(* djrill/mail/__init__.py *)

TagLimit == 50

\* The for loop of _set_mandrill_tags from position i on, tag_list being acc.
RECURSIVE TagLoop(_, _, _)
TagLoop(tags, i, acc) ==
    IF i > Len(tags) THEN [exc |-> NoExc, value |-> acc]
    ELSE LET tag == tags[i] IN
         IF Len(tag) <= TagLimit /\ ~StartsWith(tag, <<"_">>)
           THEN TagLoop(tags, i + 1, Append(acc, tag))
         ELSE IF StartsWith(tag, <<"_">>)
           THEN [exc |-> Raise("ImproperlyConfigured"), value |-> acc]
         ELSE TagLoop(tags, i + 1, acc)

_set_mandrill_tags_strict(tags) ==
    IF \E i \in 1..Len(tags) : StartsWith(tags[i], <<"_">>)
      THEN [exc |-> Raise("ImproperlyConfigured"), value |-> <<>>]
      ELSE [exc |-> NoExc,
            value |-> SelectSeq(tags, LAMBDA t : Len(t) < TagLimit)]

_set_mandrill_tags(tags) == TagLoop(tags, 1, <<>>)

\* django's EmailMessage.__init__(**kwargs): the fields the backend reads.
\* content_subtype and encoding are class attributes.
EmailMessageInit(subtype, kwargs) ==
    [content_subtype |-> subtype,
     subject |-> kwargs.subject,
     body |-> kwargs.body,
     from_email |-> kwargs.from_email,
     to |-> kwargs.to,
     extra_headers |-> kwargs.headers,
     encoding |-> None]

\* EmailMultiAlternatives.__init__ adds alternatives (alternatives or []).
EmailMultiAlternativesInit(subtype, kwargs) ==
    Update(EmailMessageInit(subtype, kwargs),
           [alternatives |-> kwargs.alternatives])

\* DjrillMessageMixin.__init__ on the object base that super().__init__ made.
MixinInit(base, args) ==
    LET t == _set_mandrill_tags(IF Truthy(args.tags) THEN args.tags ELSE <<>>) IN
    IF t.exc.type # "none" THEN [exc |-> t.exc, obj |-> base]
    ELSE [exc |-> NoExc,
          obj |-> Update(base, [from_name |-> args.from_name,
                                tags |-> t.value,
                                track_opens |-> args.track_opens,
                                track_clicks |-> args.track_clicks])]

ContentMandrill == <<"m", "a", "n", "d", "r", "i", "l", "l">>
ContentTemplate == ContentMandrill \o <<".", "t", "e", "m", "p", "l", "a", "t", "e">>
ContentPlain == <<"p", "l", "a", "i", "n">>

\* DjrillMessage(**args)
DjrillMessageNew(args) ==
    MixinInit(EmailMultiAlternativesInit(ContentMandrill, args), args)

\* DjrillTemplateMessage(template_name, template_content, **args)
DjrillTemplateMessageNew(args) ==
    LET m == MixinInit(EmailMessageInit(ContentTemplate, args), args) IN
    IF m.exc.type # "none" THEN m
    ELSE IF ~Truthy(args.template_name)
      THEN [exc |-> Raise("RuntimeError"), obj |-> m.obj]
    ELSE [exc |-> NoExc,
          obj |-> Update(m.obj,
                    [template_name |-> args.template_name,
                     template_content |->
                        IF Truthy(args.template_content)
                          THEN args.template_content ELSE <<>>])]

-----------------------------------------------------------------------------
(* email.utils.parseaddr and django's sanitize_address, as backends.py uses  *)
(* them, for addresses of the two forms "addr" and "Name <addr>".            *)

RECURSIVE Strip(_)
Strip(s) ==
    IF s = <<>> THEN s
    ELSE IF s[1] = " " THEN Strip(Tail(s))
    ELSE IF s[Len(s)] = " " THEN Strip(SubSeq(s, 1, Len(s) - 1))
    ELSE s

IndexOf(s, c) ==
    IF \E i \in 1..Len(s) : s[i] = c
      THEN CHOOSE i \in 1..Len(s) : s[i] = c /\ \A j \in 1..(i - 1) : s[j] # c
      ELSE 0

\* parseaddr(s) -> (name, email)
parseaddr(s) ==
    LET lt == IndexOf(s, "<")
        gt == IndexOf(s, ">")
    IN IF lt > 0 /\ gt > lt
         THEN [name |-> Strip(SubSeq(s, 1, lt - 1)),
               email |-> SubSeq(s, lt + 1, gt - 1)]
         ELSE [name |-> <<>>, email |-> Strip(s)]

\* sanitize_address(addr, encoding): formataddr(parseaddr(addr)) for ASCII
sanitize_address(addr, encoding) ==
    LET p == parseaddr(addr) IN
    IF p.name # <<>> THEN p.name \o <<" ", "<">> \o p.email \o <<">">>
    ELSE p.email

-----------------------------------------------------------------------------
(* djrill/mail/backends.py *)

DjrillBackendHTTPError(status_code, message) ==
    [type |-> "DjrillBackendHTTPError",
     status_code |-> status_code,
     message |-> message]

SendJson ==
    <<"m", "e", "s", "s", "a", "g", "e", "s", "/",
      "s", "e", "n", "d", ".", "j", "s", "o", "n">>
SendTemplateJson ==
    <<"m", "e", "s", "s", "a", "g", "e", "s", "/",
      "s", "e", "n", "d", "-", "t", "e", "m", "p", "l", "a", "t", "e",
      ".", "j", "s", "o", "n">>

api_methods == ("send" :> SendJson) @@ ("send-template" :> SendTemplateJson)

\* BaseEmailBackend.__init__(fail_silently=False, **kwargs), called by line 37
\* with the kwargs left once DjrillBackend.__init__ has bound its own
\* fail_silently parameter.
BaseEmailBackendInit(kwargs) ==
    [fail_silently |-> GetAttr(kwargs, "fail_silently", FALSE)]

\* DjrillBackend.__init__(fail_silently, **kwargs) under the settings stg.
\* The fail_silently parameter is bound here and not handed on.
DjrillBackendInit(fail_silently, kwargs, stg) ==
    LET self0 == BaseEmailBackendInit(kwargs)
        api_key == GetAttr(stg, "MANDRILL_API_KEY", None)
        api_url == GetAttr(stg, "MANDRILL_API_URL", None)
    IN IF api_url = None
         THEN [exc |-> Raise("TypeError"), self |-> self0]    \* None[-1]
       ELSE IF api_url = <<>>
         THEN [exc |-> Raise("IndexError"), self |-> self0]   \* ""[-1]
       ELSE LET url == IF ~(api_url[Len(api_url)] = "/")
                         THEN api_url \o <<"/">> ELSE api_url
            IN IF ~Truthy(api_key)
                 THEN [exc |-> Raise("ImproperlyConfigured"), self |-> self0]
               ELSE IF ~Truthy(url)
                 THEN [exc |-> Raise("ImproperlyConfigured"), self |-> self0]
               ELSE [exc |-> NoExc,
                     self |-> Update(self0, [api_key |-> api_key,
                                             api_url |-> url])]

\* message.recipients(): to + bcc, bcc being empty throughout
recipients(message) == message.to

\* _get_target
_get_target(self, stg, message) ==
    LET method_name == IF message.content_subtype = ContentTemplate
                         THEN "send-template" ELSE "send"
    IN stg["MANDRILL_API_URL"] \o api_methods[method_name]

\* _build_standard_payload
_build_standard_payload(self, message) ==
    LET recipients_list ==
            [i \in 1..Len(recipients(message)) |->
                sanitize_address(recipients(message)[i], message.encoding)]
        to ==
            [i \in 1..Len(recipients_list) |->
                [email |-> parseaddr(recipients_list[i]).email,
                 name |-> parseaddr(recipients_list[i]).name]]
        sender == sanitize_address(message.from_email, message.encoding)
        parsed == parseaddr(sender)
    IN [key |-> self.api_key,
        message |-> [text |-> message.body,
                     subject |-> message.subject,
                     from_email |-> parsed.email,
                     from_name |-> GetAttr(message, "from_name", parsed.name),
                     to |-> to]]

\* The headers kept by _update_mandrill_payload
accepted_headers(extra_headers) ==
    LET kept == {k \in DOMAIN extra_headers :
                    StartsWith(k, <<"X", "-">>)
                    \/ k = <<"R", "e", "p", "l", "y", "-", "T", "o">>}
    IN [k \in kept |-> extra_headers[k]]

\* _update_mandrill_payload: the payload it leaves, or the exception it raises.
\* global_merge_vars, a dict iterated in no fixed order, becomes a set.
_update_mandrill_payload(payload, message) ==
    LET m1 == Update(payload.message,
                     [tags |-> message.tags,
                      track_opens |-> message.track_opens,
                      track_clicks |-> message.track_clicks,
                      headers |-> accepted_headers(message.extra_headers)])
    IN IF "global_merge_vars" \notin DOMAIN message
         THEN [exc |-> Raise("AttributeError"), payload |-> payload]
       ELSE
        LET g == message.global_merge_vars
            m2 == IF DOMAIN g # {}
                    THEN Update(m1, [global_merge_vars |->
                            {[name |-> k, content |-> g[k]] : k \in DOMAIN g}])
                    ELSE m1
            alternatives == GetAttr(message, "alternatives", None)
        IN IF Truthy(alternatives) /\ Len(alternatives) > 1
             THEN [exc |-> Raise("ImproperlyConfigured"), payload |-> payload]
           ELSE
            LET m3 == IF Truthy(alternatives)
                        THEN Update(m2, [html |-> alternatives[1][1]])
                        ELSE m2
                p3 == Update(payload, [message |-> m3])
            IN [exc |-> NoExc,
                payload |->
                    IF message.content_subtype = ContentTemplate
                      THEN Update(p3,
                             [template_name |-> message.template_name,
                              template_content |-> message.template_content])
                      ELSE p3]

\* Lines 74-80 of _send: what the response makes of the send.
ClassifyResponseSwallow(self, resp) ==
    [exc |-> NoExc, value |-> resp.status_code = 200]

ClassifyResponse(self, resp) ==
    IF resp.status_code # 200
      THEN IF self.fail_silently
             THEN [exc |-> NoExc, value |-> FALSE]
             ELSE [exc |-> DjrillBackendHTTPError(resp.status_code,
                                                  resp.content["message"]),
                   value |-> FALSE]
      ELSE [exc |-> NoExc, value |-> TRUE]

\* _send(message), the provider answering resp to the POST if one is issued:
\* the exception raised or the value returned, and the POST issued.
_send(self, stg, message, resp) ==
    IF ~Truthy(recipients(message))
      THEN [exc |-> NoExc, value |-> FALSE, posts |-> <<>>]
    ELSE
      LET payload == _build_standard_payload(self, message)
          upd == IF StartsWith(message.content_subtype, ContentMandrill)
                   THEN _update_mandrill_payload(payload, message)
                   ELSE [exc |-> NoExc, payload |-> payload]
      IN IF upd.exc.type # "none"
           THEN [exc |-> upd.exc, value |-> FALSE, posts |-> <<>>]
         ELSE
           LET target == _get_target(self, stg, message)
               c == ClassifyResponse(self, resp)
           IN [exc |-> c.exc, value |-> c.value,
               posts |-> <<[target |-> target, data |-> upd.payload,
                            resp |-> resp]>>]

\* Lines 58-59 of send_messages
CountAlways(n, sent) == n + 1

Count(n, sent) == IF sent THEN n + 1 ELSE n

-----------------------------------------------------------------------------
(* The inputs *)

KeyValue == <<"k">>
Urls == {<<"h">>, <<"h", "/">>, <<"/">>}

\* settings with each of the two attributes unset, empty or set
SettingsSet ==
    {Update(k, u) :
        k \in {EmptyDict} \cup
              {[MANDRILL_API_KEY |-> v] : v \in {<<>>, KeyValue}},
        u \in {EmptyDict} \cup
              {[MANDRILL_API_URL |-> v] : v \in {<<>>} \cup Urls}}

Bare == <<"j", "@", "x">>
Named == <<"J", " ", "<", "j", "@", "x", ">">>
DisplayName == <<"N">>

Headers ==
    (<<"X", "-", "C">> :> "1")
    @@ (<<"R", "e", "p", "l", "y", "-", "T", "o">> :> "a@b")
    @@ (<<"C", "c">> :> "x@y")

Html(n) == [i \in 1..n |-> <<<<"<", "p", ">">> \o Rep("i", i), "text/html">>]

MergeVars == {EmptyDict, ("a" :> 1) @@ ("b" :> 2)}

\* Tags: plain ones that differ in case, reserved ones, and ones at and over
\* the length limit
TagPool ==
    {<<"a">>, <<"A">>, <<"_", "a">>,
     Rep("b", TagLimit), Rep("b", TagLimit + 1),
     <<"_">> \o Rep("b", TagLimit)}

SeqsUpTo(S, n) == UNION {[1..k -> S] : k \in 0..n}

\* The keyword arguments of EmailMessage / EmailMultiAlternatives
BaseArgs(from_email, to, n_alternatives) ==
    [subject |-> "subject", body |-> "body", from_email |-> from_email,
     to |-> to, headers |-> Headers, alternatives |-> Html(n_alternatives)]

\* The arguments of DjrillMessageMixin.__init__ with their defaults
MixinDefaults == [from_name |-> None, tags |-> None,
                  track_opens |-> TRUE, track_clicks |-> TRUE]

TemplateDefaults == [template_name |-> None, template_content |-> None]

\* message.global_merge_vars = g, an assignment by the caller
AssignGlobalMergeVars(message, g) == Update(message, [global_merge_vars |-> g])

\* A constructed message as the caller hands it on: as constructed, or with
\* global_merge_vars assigned
AsHandedOn(message, gs) ==
    {message} \cup {AssignGlobalMergeVars(message, g) : g \in gs}

PlainMessages(froms, tos) ==
    {EmailMessageInit(ContentPlain, BaseArgs(f, t, 0)) : f \in froms, t \in tos}

DjrillMessages(froms, tos, names, alts, gs) ==
    UNION {AsHandedOn(DjrillMessageNew(
                Update(Update(BaseArgs(f, t, a), MixinDefaults),
                       [from_name |-> n, tags |-> <<<<"a">>>>])).obj, gs) :
           f \in froms, t \in tos, n \in names, a \in alts}

TemplateMessages(froms, tos, names, gs) ==
    UNION {AsHandedOn(DjrillTemplateMessageNew(
                Update(Update(Update(BaseArgs(f, t, 0), MixinDefaults),
                              TemplateDefaults),
                       [from_name |-> n, template_name |-> <<"t">>])).obj, gs) :
           f \in froms, t \in tos, n \in names}

\* The messages of the batches: with and without recipients, of the three
\* kinds, with global_merge_vars assigned or not, with 0 or 2 alternatives
BatchMessages ==
    PlainMessages({Named}, {<<>>, <<Bare>>})
    \cup DjrillMessages({Bare}, {<<Bare>>}, {None}, {0, 2}, {("a" :> 1)})
    \cup DjrillMessages({Bare}, {<<>>}, {None}, {0}, {})
    \cup TemplateMessages({Bare}, {<<Bare>>}, {None}, {EmptyDict})

\* The single messages whose payload is examined
PayloadMessages ==
    PlainMessages({Bare, Named}, {<<>>, <<Named, Bare>>})
    \cup DjrillMessages({Bare, Named}, {<<>>, <<Named, Bare>>},
                        {None, DisplayName}, {0, 1, 2}, MergeVars)
    \cup TemplateMessages({Bare, Named}, {<<>>, <<Named, Bare>>},
                          {None, DisplayName}, MergeVars)

\* What the provider may answer to a POST
Responses ==
    {[status_code |-> 200, content |-> [message |-> "ok"]],
     [status_code |-> 401, content |-> [message |-> "Invalid API key"]],
     [status_code |-> 500, content |-> [message |-> "Internal error"]]}

-----------------------------------------------------------------------------
(* The caller: DjrillBackend(fail_silently=...).send_messages(email_messages) *)

NotReturned == [returned |-> FALSE, is_none |-> TRUE, count |-> 0]
ReturnedNone == [returned |-> TRUE, is_none |-> TRUE, count |-> 0]
Returned(n) == [returned |-> TRUE, is_none |-> FALSE, count |-> n]

InitWith(batches) ==
    /\ settings \in SettingsSet
    /\ argFailSilently \in BOOLEAN
    /\ backend = EmptyDict
    /\ email_messages \in batches
    /\ pc = "start"
    /\ idx = 0
    /\ num_sent = 0
    /\ posts = <<>>
    /\ exc = NoExc
    /\ result = NotReturned
    /\ made = [cls |-> "none"]

Init == InitWith(SeqsUpTo(BatchMessages, MaxBatch))

InitPayload == InitWith({<<m>> : m \in PayloadMessages})

\* DjrillBackend(fail_silently=argFailSilently)
BackendInit ==
    /\ pc = "start"
    /\ LET r == DjrillBackendInit(argFailSilently, EmptyDict, settings) IN
         IF r.exc.type # "none"
           THEN pc' = "init_raised" /\ exc' = r.exc /\ UNCHANGED backend
           ELSE pc' = "ready" /\ backend' = r.self /\ UNCHANGED exc
    /\ UNCHANGED <<settings, argFailSilently, email_messages, idx, num_sent, posts,
                   result, made>>

\* send_messages(email_messages), lines 52-55
send_messages ==
    /\ pc = "ready"
    /\ IF ~Truthy(email_messages)
         THEN pc' = "returned" /\ result' = ReturnedNone /\ UNCHANGED idx
         ELSE pc' = "loop" /\ idx' = 1 /\ UNCHANGED result
    /\ num_sent' = 0
    /\ UNCHANGED <<settings, argFailSilently, backend, email_messages, posts, exc, made>>

\* One round of the for loop, lines 56-59, with the whole of _send
send_messages_loop ==
    /\ pc = "loop"
    /\ idx <= Len(email_messages)
    /\ \E resp \in Responses :
         LET r == _send(backend, settings, email_messages[idx], resp) IN
         /\ posts' = posts \o [i \in 1..Len(r.posts) |->
                                  Update(r.posts[i], [index |-> idx])]
         /\ IF r.exc.type # "none"
              THEN pc' = "raised" /\ exc' = r.exc /\ UNCHANGED <<idx, num_sent>>
              ELSE /\ num_sent' = Count(num_sent, r.value)
                   /\ idx' = idx + 1
                   /\ UNCHANGED <<pc, exc>>
    /\ UNCHANGED <<settings, argFailSilently, backend, email_messages, result, made>>

\* return num_sent, line 61
send_messages_return ==
    /\ pc = "loop"
    /\ idx > Len(email_messages)
    /\ pc' = "returned"
    /\ result' = Returned(num_sent)
    /\ UNCHANGED <<settings, argFailSilently, backend, email_messages, idx, num_sent,
                   posts, exc, made>>

Next == BackendInit \/ send_messages \/ send_messages_loop \/ send_messages_return

Spec == Init /\ [][Next]_vars

SpecPayload == InitPayload /\ [][Next]_vars

-----------------------------------------------------------------------------
(* The caller constructing messages *)

MixinArgsSet ==
    {Update(BaseArgs(Bare, <<Bare>>, 0),
            [from_name |-> n, tags |-> t, track_opens |-> o,
             track_clicks |-> TRUE]) :
        n \in {None, DisplayName},
        t \in {None} \cup SeqsUpTo(TagPool, MaxTags),
        o \in BOOLEAN}

TemplateArgsSet ==
    {Update(a, [template_name |-> n, template_content |-> c]) :
        a \in MixinArgsSet,
        n \in {None, <<>>, <<"t">>},
        c \in {None, <<[name |-> "block", content |-> "c"]>>}}

InitMessage ==
    /\ settings = EmptyDict
    /\ argFailSilently = FALSE
    /\ backend = EmptyDict
    /\ email_messages = <<>>
    /\ pc = "messages"
    /\ idx = 0
    /\ num_sent = 0
    /\ posts = <<>>
    /\ exc = NoExc
    /\ result = NotReturned
    /\ made = [cls |-> "none"]

Made(cls, args, r) ==
    [cls |-> cls, args |-> args, exc |-> r.exc,
     obj |-> IF r.exc.type = "none" THEN r.obj ELSE EmptyDict]

\* DjrillMessage(**args)
NewDjrillMessage ==
    /\ pc = "messages"
    /\ made.cls = "none"
    /\ \E args \in MixinArgsSet :
         made' = Made("DjrillMessage", args, DjrillMessageNew(args))
    /\ UNCHANGED <<settings, argFailSilently, backend, email_messages, pc, idx,
                   num_sent, posts, exc, result>>

\* DjrillTemplateMessage(**args)
NewDjrillTemplateMessage ==
    /\ pc = "messages"
    /\ made.cls = "none"
    /\ \E args \in TemplateArgsSet :
         made' = Made("DjrillTemplateMessage", args,
                      DjrillTemplateMessageNew(args))
    /\ UNCHANGED <<settings, argFailSilently, backend, email_messages, pc, idx,
                   num_sent, posts, exc, result>>

NextMessage == NewDjrillMessage \/ NewDjrillTemplateMessage

SpecMessage == InitMessage /\ [][NextMessage]_vars

-----------------------------------------------------------------------------
(* Properties *)

\* Message i of the email_messages has been through _send.
Processed(i) ==
    \/ pc \in {"loop", "returned"} /\ idx > i
    \/ pc = "raised" /\ idx = i

\* The POSTs issued for message i of the email_messages
PostsOf(i) == {k \in 1..Len(posts) : posts[k].index = i}

HasRecipients(m) == Len(m.to) > 0

IsExtended(m) == m.content_subtype \in {ContentMandrill, ContentTemplate}

\* C1: when send_messages returns from a non-empty email_messages (no send raised), it
\* returns the number of messages that have a recipient and whose POST was
\* answered 200; no other message is counted.
C1_ReturnsConfirmedCount ==
    (pc = "returned" /\ Len(email_messages) > 0) =>
        /\ ~result.is_none
        /\ result.count =
             Cardinality({i \in 1..Len(email_messages) :
                            /\ HasRecipients(email_messages[i])
                            /\ \E k \in PostsOf(i) :
                                   posts[k].resp.status_code = 200})

\* C1 witness: a email_messages of two returned 1, one message having no recipient.
C1_Witness ==
    /\ pc = "returned"
    /\ Len(email_messages) = 2
    /\ result.count = 1
    /\ \E i \in 1..2 : ~HasRecipients(email_messages[i])
    /\ Len(posts) = 1

\* C2: with fail_silently enabled a non-200 response raises nothing: the
\* loop does not stop at the message that was answered non-200.
C2_FailSilentlySwallows ==
    argFailSilently =>
        \A k \in 1..Len(posts) :
            posts[k].resp.status_code # 200 =>
                /\ ~(pc = "raised" /\ idx = posts[k].index)
                /\ Processed(posts[k].index)

\* C3: with fail_silently disabled, a POST answered non-200 makes
\* send_messages raise DjrillBackendHTTPError with that status code and the
\* body's message; it is the last POST issued and nothing is returned.
C3_FirstFailureRaises ==
    ~argFailSilently =>
        \A k \in 1..Len(posts) :
            posts[k].resp.status_code # 200 =>
                /\ pc = "raised"
                /\ exc = DjrillBackendHTTPError(posts[k].resp.status_code,
                                                posts[k].resp.content.message)
                /\ k = Len(posts)
                /\ idx = posts[k].index
                /\ result = NotReturned

\* C3 witness: the provider error was raised with a message with recipients
\* still to come in the email_messages.
C3_Witness ==
    /\ ~argFailSilently
    /\ pc = "raised"
    /\ exc.type = "DjrillBackendHTTPError"
    /\ exc.status_code = 401
    /\ exc.message = "Invalid API key"
    /\ idx < Len(email_messages)
    /\ HasRecipients(email_messages[idx + 1])

Absent(name) == name \notin DOMAIN settings \/ settings[name] = <<>>

\* C4: with the API key or the API URL absent (unset or empty), constructing
\* the backend fails with ImproperlyConfigured and with no other error.
C4_AbsentIsImproperlyConfigured ==
    (pc # "start" /\ (Absent("MANDRILL_API_KEY") \/ Absent("MANDRILL_API_URL")))
        => (pc = "init_raised" /\ exc.type = "ImproperlyConfigured")

\* C5: every POST goes to the configured URL, normalized to end with "/",
\* followed by messages/send-template.json for a template message and by
\* messages/send.json otherwise.
C5_TargetIsNormalizedUrlPlusSuffix ==
    \A k \in 1..Len(posts) :
        LET u == settings["MANDRILL_API_URL"]
            base == IF u[Len(u)] = "/" THEN u ELSE u \o <<"/">>
            m == email_messages[posts[k].index]
        IN posts[k].target =
             base \o (IF m.content_subtype = ContentTemplate
                        THEN SendTemplateJson ELSE SendJson)

GivenTags == IF made.args.tags = None THEN <<>> ELSE made.args.tags

\* C6: tag normalization at construction: a tag starting with "_" anywhere
\* in the list fails the construction with ImproperlyConfigured; otherwise
\* no such error is raised and the tags are the given tags of length at
\* most 50, in the given order, duplicates and case kept.
C6_TagNormalization ==
    made.cls # "none" =>
        IF \E i \in 1..Len(GivenTags) :
               Len(GivenTags[i]) > 0 /\ GivenTags[i][1] = "_"
          THEN made.exc.type = "ImproperlyConfigured"
          ELSE /\ made.exc.type # "ImproperlyConfigured"
               /\ made.cls = "DjrillMessage" => made.exc.type = "none"
               /\ made.exc.type = "none" =>
                    made.obj.tags =
                        SelectSeq(GivenTags, LAMBDA t : Len(t) <= 50)

\* C6 witness: a construction that succeeded and left out an over-length
\* tag while keeping a tag of exactly 50 characters.
C6_Witness ==
    /\ made.cls # "none"
    /\ made.exc.type = "none"
    /\ Len(GivenTags) = 2
    /\ Len(GivenTags[1]) > 50
    /\ made.obj.tags = <<Rep("b", 50)>>

\* C7: a template message constructed without a template_name (missing or
\* empty) fails with ImproperlyConfigured, the error of a reserved tag; with
\* a template_name it is constructed, template_content defaulting to empty.
C7_TemplateNameRequired ==
    made.cls = "DjrillTemplateMessage" =>
        IF ~Truthy(made.args.template_name)
          THEN made.exc.type = "ImproperlyConfigured"
          ELSE made.exc.type = "none" =>
                 /\ made.obj.template_name = made.args.template_name
                 /\ made.args.template_content = None =>
                        made.obj.template_content = <<>>

\* C8: in the payload, from_name is the message's from_name when one was
\* given and otherwise the display name parsed from from_email; from_email
\* is the address part.
C8_FromNamePrecedence ==
    \A k \in 1..Len(posts) :
        LET m == email_messages[posts[k].index]
            p == posts[k].data.message
            given == "from_name" \in DOMAIN m /\ m.from_name # None
        IN /\ p.from_email = <<"j", "@", "x">>
           /\ p.from_name =
                IF given THEN m.from_name
                ELSE IF m.from_email = Named THEN <<"J">> ELSE <<>>

\* C9: a provider-extended message with recipients (and at most one
\* alternative) that has no global_merge_vars goes through _send without
\* error and is POSTed with no global_merge_vars in the payload's message;
\* a non-empty global_merge_vars gives one {name, content} per entry.
C9_GlobalMergeVarsOptional ==
    \A i \in 1..Len(email_messages) :
        LET m == email_messages[i] IN
        (Processed(i) /\ IsExtended(m) /\ HasRecipients(m)
            /\ Len(GetAttr(m, "alternatives", <<>>)) <= 1) =>
            /\ "global_merge_vars" \notin DOMAIN m =>
                 \E k \in PostsOf(i) :
                     "global_merge_vars" \notin DOMAIN posts[k].data.message
            /\ ("global_merge_vars" \in DOMAIN m
                  /\ DOMAIN GetAttr(m, "global_merge_vars", EmptyDict) # {}) =>
                 \A k \in PostsOf(i) :
                     posts[k].data.message.global_merge_vars =
                        {[name |-> n, content |-> m.global_merge_vars[n]] :
                            n \in DOMAIN m.global_merge_vars}

\* C10: a provider-extended message with recipients and more than one
\* alternative makes _send raise ImproperlyConfigured with no POST; with one
\* alternative the payload's message.html is its content; with none the
\* payload's message has no html.
C10_AlternativeContentRule ==
    \A i \in 1..Len(email_messages) :
        LET m == email_messages[i]
            alts == GetAttr(m, "alternatives", <<>>)
        IN (Processed(i) /\ IsExtended(m) /\ HasRecipients(m)) =>
            /\ Len(alts) > 1 =>
                 /\ pc = "raised" /\ idx = i
                 /\ exc.type = "ImproperlyConfigured"
                 /\ PostsOf(i) = {}
            /\ Len(alts) = 1 =>
                 \E k \in PostsOf(i) :
                     /\ "html" \in DOMAIN posts[k].data.message
                     /\ posts[k].data.message.html = alts[1][1]
            /\ Len(alts) = 0 =>
                 \A k \in PostsOf(i) :
                     "html" \notin DOMAIN posts[k].data.message

=============================================================================
